---- MODULE Spec2Model ----
(***************************************************************************)
(* A model of webpack-module-rules-utils (src/index.js): search,           *)
(* normalization and positional insertion over a forest of webpack Rule    *)
(* objects.                                                                *)
(*                                                                         *)
(* JavaScript values are modelled as follows.                              *)
(*  - A string is the sequence of its characters.                          *)
(*  - A scalar value is a record [k, id, s, o, q]: k is its kind           *)
(*    ("undef", "str", "obj" for a UseEntry object, "fn" for a function,   *)
(*    "rule" for a reference to a Rule); id is the identity of an object   *)
(*    (0 for primitives); s is the string itself (k = "str") or the        *)
(*    object's loader (k = "obj"); o and q are the object's options and    *)
(*    query.  The library never writes to a UseEntry, so the content of an *)
(*    entry travels with its reference.  A property that is absent and a   *)
(*    property that holds undefined are not told apart.                    *)
(*  - The value of rule.use / rule.loader / rule.loaders is [arr, xs]:     *)
(*    an array with elements xs, or (arr = FALSE) the scalar xs[1].        *)
(*  - The value of rule.rules / rule.oneOf is [arr, ids]: an array of Rule *)
(*    identities, or (arr = FALSE) not an array.                           *)
(*  - Rules live in heap, a sequence indexed by Rule identity.             *)
(***************************************************************************)
EXTENDS Integers, Sequences, FiniteSets, TLC

VARIABLES
    forest,     \* the `rules` array handed to every call: Seq of Rule ids
    heap,       \* heap[r]: the fields of Rule r
    nid,        \* identity the next object made by the library will get
    calls,      \* number of API calls made on the forest so far
    limit,      \* calls the caller makes in all
    last,       \* the last API call: its name, arguments, result and trace
    before,     \* forest and heap as they were when the last call began
    matchIn,    \* string-matcher check: platform, matcher string, loader
    matchOut    \* string-matcher check: the matcher's answer

vars == <<forest, heap, nid, calls, limit, last, before, matchIn, matchOut>>

----------------------------------------------------------------------------
(* Values *)

UndefOpt == [k |-> "undef", s |-> <<>>]
StrOpt(s) == [k |-> "str", s |-> s]
ObjOpt == [k |-> "obj", s |-> <<>>]

Undef == [k |-> "undef", id |-> 0, s |-> <<>>, o |-> UndefOpt, q |-> UndefOpt]
Str(s) == [k |-> "str", id |-> 0, s |-> s, o |-> UndefOpt, q |-> UndefOpt]
Obj(id, loader, o, q) == [k |-> "obj", id |-> id, s |-> loader, o |-> o, q |-> q]
Fn(id) == [k |-> "fn", id |-> id, s |-> <<>>, o |-> UndefOpt, q |-> UndefOpt]
RuleRef(r) == [k |-> "rule", id |-> r, s |-> <<>>, o |-> UndefOpt, q |-> UndefOpt]

Absent == [arr |-> FALSE, xs |-> <<Undef>>]
One(x) == [arr |-> FALSE, xs |-> <<x>>]
Arr(xs) == [arr |-> TRUE, xs |-> xs]

NoForest == [arr |-> FALSE, ids |-> <<>>]
Sub(ids) == [arr |-> TRUE, ids |-> ids]

\* JavaScript truthiness of a scalar, of an options value and of a field.
TruthyScalar(x) == x.k \in {"obj", "fn", "rule"} \/ (x.k = "str" /\ x.s # <<>>)
TruthyOpt(o) == o.k = "obj" \/ (o.k = "str" /\ o.s # <<>>)
Truthy(f) == f.arr \/ TruthyScalar(f.xs[1])

\* typeof f === 'string'
IsStr(f) == ~f.arr /\ f.xs[1].k = "str"

----------------------------------------------------------------------------
(* Strings *)

\* String.prototype.indexOf for a one-character needle: 0-based, -1 if none.
IndexOf(s, c) ==
    IF \E i \in 1..Len(s) : s[i] = c
    THEN (CHOOSE i \in 1..Len(s) : s[i] = c /\ \A j \in 1..(i-1) : s[j] # c) - 1
    ELSE -1

\* s.substr(from) and s.substr(0, n), 0-based as in JavaScript.
SubstrFrom(s, from) == SubSeq(s, from + 1, Len(s))
SubstrTo(s, n) == SubSeq(s, 1, n)

\* s.split(c): the pieces of s between occurrences of c; "" gives [""].
RECURSIVE Split(_, _)
Split(s, c) ==
    LET i == IndexOf(s, c)
    IN  IF i < 0 THEN <<s>>
        ELSE <<SubstrTo(s, i)>> \o Split(SubstrFrom(s, i + 1), c)

----------------------------------------------------------------------------
(* Normalization of one Rule *)

\* _normalizeUseItemString; id is the identity of the object it creates.
NormalizeUseItemString(s, id) ==
    LET index == IndexOf(s, "?")
    IN  IF index >= 0
        THEN Obj(id, SubstrTo(s, index), StrOpt(SubstrFrom(s, index + 1)), UndefOpt)
        ELSE Obj(id, s, UndefOpt, UndefOpt)

\* Mutant: `delete rule.loaders` forgotten.
DeleteLoaderKeys_keepsLoaders(rule, withOptions) ==
    [rule EXCEPT !.loader = Absent,
                 !.query = IF withOptions THEN UndefOpt ELSE @,
                 !.options = IF withOptions THEN UndefOpt ELSE @]

\* _deleteLoaderKeys(rule, withOptions)
DeleteLoaderKeys(rule, withOptions) ==
    [rule EXCEPT !.loader = Absent,
                 !.loaders = Absent,
                 !.query = IF withOptions THEN UndefOpt ELSE @,
                 !.options = IF withOptions THEN UndefOpt ELSE @]

\* Lines 86-108: fold the legacy .loader(s) keys into .use.
\* Gives [rule, nid]: the rule and the next free object identity.
ConvertLegacy(rule, n) ==
    IF Truthy(rule.use) THEN [rule |-> rule, nid |-> n]
    ELSE
      LET loader == IF Truthy(rule.loaders) THEN rule.loaders ELSE rule.loader
          loaderIsStr == IsStr(loader)
      IN  IF loaderIsStr /\ ~TruthyOpt(rule.options) /\ ~TruthyOpt(rule.query)
          THEN [rule |-> DeleteLoaderKeys(
                            [rule EXCEPT !.use =
                               Arr([i \in 1..Len(Split(loader.xs[1].s, "!")) |->
                                       Str(Split(loader.xs[1].s, "!")[i])])],
                            FALSE),
                nid |-> n]
          ELSE IF loaderIsStr /\ (TruthyOpt(rule.options) # TruthyOpt(rule.query))
          THEN [rule |-> DeleteLoaderKeys(
                            [rule EXCEPT !.use =
                               One(Obj(n, loader.xs[1].s, rule.options, rule.query))],
                            TRUE),
                nid |-> n + 1]
          ELSE IF Truthy(loader) /\ ~(TruthyOpt(rule.options) \/ TruthyOpt(rule.query))
          THEN [rule |-> DeleteLoaderKeys([rule EXCEPT !.use = loader], FALSE),
                nid |-> n]
          ELSE [rule |-> rule, nid |-> n]

\* Number of strings among the first i elements of xs.
StrsBefore(xs, i) == Cardinality({j \in 1..i : xs[j].k = "str"})

\* Lines 113-115: a single use value becomes a one-element array.
WrapUse(use) == IF Truthy(use) /\ ~use.arr THEN Arr(use.xs) ELSE use

\* Lines 118-120: every string element becomes a UseEntry object.
MapUse(use, n) ==
    IF use.arr
    THEN Arr([i \in 1..Len(use.xs) |->
                IF use.xs[i].k = "str"
                THEN NormalizeUseItemString(use.xs[i].s, n + StrsBefore(use.xs, i - 1))
                ELSE use.xs[i]])
    ELSE use

\* Mutant: the two steps in the wrong order.
NormalizeUse_mapFirst(use, n) == WrapUse(MapUse(use, n))

\* Lines 110-120: normalize rule.use.
NormalizeUse(use, n) == MapUse(WrapUse(use), n)

\* Objects the second half creates: one per string element.
NewObjects(use) == IF WrapUse(use).arr THEN StrsBefore(WrapUse(use).xs, Len(WrapUse(use).xs)) ELSE 0

\* Lines 110-120 on c = [rule, nid], what lines 86-108 left.
NormalizeUseOf(c) ==
    [rule |-> [c.rule EXCEPT !.use = NormalizeUse(@, c.nid)],
     nid |-> c.nid + NewObjects(c.rule.use)]

\* _normalizeUseEntriesWithinRule: the rule and the next free identity.
NormalizeUseEntriesWithinRule(rule, n) == NormalizeUseOf(ConvertLegacy(rule, n))

----------------------------------------------------------------------------
(* Traversal *)

\* The state a traversal threads through its callback: the heap it mutates,
\* the allocator, the _carry object, the findings of _findByLoader, the
\* result of getParentRule (null is Undef), and a trace of the callback's
\* invocations (the Rule and whether the callback returned false).
Start(h, n) ==
    [heap |-> h, nid |-> n, interrupted |-> FALSE,
     results |-> <<>>, result |-> Undef, log |-> <<>>]

\* A function matcher is modelled by the set of loader names it accepts,
\* e.g. e => e.loader === 'b' by {<<"b">>}; _normalizeLoaderMatcher hands a
\* function back as it is (lines 133, 151).
Matches(m, entry) == entry.k = "obj" /\ entry.s \in m

\* Mutant: elements are compared by what they hold, not by identity.
Includes_structural(xs, x) ==
    \E i \in 1..Len(xs) : [xs[i] EXCEPT !.id = 0] = [x EXCEPT !.id = 0]

\* array.includes(x) / array.indexOf(x) on an array of scalars.
Includes(xs, x) == \E i \in 1..Len(xs) : xs[i] = x
IndexOfItem(xs, x) ==
    IF \E i \in 1..Len(xs) : xs[i] = x
    THEN (CHOOSE i \in 1..Len(xs) : xs[i] = x /\ \A j \in 1..(i-1) : xs[j] # x) - 1
    ELSE -1

Refs(ids) == [i \in 1..Len(ids) |-> RuleRef(ids[i])]
Ids(xs) == [i \in 1..Len(xs) |-> xs[i].id]

\* State st with Rule r replaced by nz.rule: the callbacks normalize the Rule
\* in place.
WithRule(r, st, nz) == [st EXCEPT !.heap[r] = nz.rule, !.nid = nz.nid]

\* _normalizeUseEntriesWithinRule(rule), first statement of every callback
\* (lines 168, 237, 335).
NormalizeRule(r, st) ==
    WithRule(r, st, NormalizeUseEntriesWithinRule(st.heap[r], st.nid))

\* Lines 170-180 of the callback of _findByLoader, on the normalized Rule r.
FindInUse(cb, r, st) ==
    LET use == st.heap[r].use
        hits == SelectSeq(use.xs, LAMBDA e : Matches(cb.m, e))
        found == [i \in 1..Len(hits) |-> [rule |-> r, useEntry |-> hits[i]]]
    IN  IF ~use.arr THEN [st |-> st, stop |-> FALSE]
        ELSE IF hits # <<>> /\ cb.stop
        THEN [st |-> [st EXCEPT !.results = Append(@, found[1])], stop |-> TRUE]
        ELSE [st |-> [st EXCEPT !.results = @ \o found], stop |-> FALSE]

\* The callback of _findByLoader (lines 167-181) on Rule r.
FindCallback(cb, r, st) == FindInUse(cb, r, NormalizeRule(r, st))

\* Mutant: the oneOf forest is not looked into.
IsParent_noOneOf(cb, r, st) ==
    LET rule == st.heap[r]
        isInRules == rule.rules.arr /\ Includes(Refs(rule.rules.ids), cb.target)
        isInUseEntries == rule.use.arr /\ Includes(rule.use.xs, cb.target)
    IN  IF isInRules \/ isInUseEntries
        THEN [st |-> [st EXCEPT !.result = RuleRef(r)], stop |-> TRUE]
        ELSE [st |-> st, stop |-> FALSE]

\* Lines 239-246 of the callback of getParentRule, on the normalized Rule r.
IsParent(cb, r, st) ==
    LET rule == st.heap[r]
        isInRules == rule.rules.arr /\ Includes(Refs(rule.rules.ids), cb.target)
        isInOneOf == rule.oneOf.arr /\ Includes(Refs(rule.oneOf.ids), cb.target)
        isInUseEntries == rule.use.arr /\ Includes(rule.use.xs, cb.target)
    IN  IF isInRules \/ isInOneOf \/ isInUseEntries
        THEN [st |-> [st EXCEPT !.result = RuleRef(r)], stop |-> TRUE]
        ELSE [st |-> st, stop |-> FALSE]

\* The callback of getParentRule (lines 236-247) on Rule r.
ParentCallback(cb, r, st) == IsParent(cb, r, NormalizeRule(r, st))

\* The callback of normalizeRuleset (lines 334-336) on Rule r.
NormalizeCallback(cb, r, st) == [st |-> NormalizeRule(r, st), stop |-> FALSE]

\* c, what a callback did on Rule r, entered in the trace.
Logged(r, c) ==
    [st |-> [c.st EXCEPT !.log = Append(@, [rule |-> r, stop |-> c.stop])],
     stop |-> c.stop]

\* callback(rule): the state after it, and whether it returned false.
Callback(cb, r, st) ==
    Logged(r, CASE cb.kind = "find" -> FindCallback(cb, r, st)
                [] cb.kind = "parent" -> ParentCallback(cb, r, st)
                [] OTHER -> NormalizeCallback(cb, r, st))

SubForest(f) == IF f.arr THEN f.ids ELSE <<>>

RECURSIVE IterateRulesDeep(_, _, _, _)

\* _iterateRulesDeep(Array.isArray(rule[slot]) ? rule[slot] : [], callback,
\* _carry), rule[slot] being read when the call is made.
Deeper(r, slot, cb, st) ==
    IterateRulesDeep(SubForest(IF slot = "rules" THEN st.heap[r].rules
                               ELSE st.heap[r].oneOf), 1, cb, st)

\* Mutant: rule.oneOf is walked before rule.rules.
GoDeeper_oneOfFirst(r, cb, st) == Deeper(r, "rules", cb, Deeper(r, "oneOf", cb, st))

\* Mutant: rule.oneOf is not walked.
GoDeeper_noOneOf(r, cb, st) == Deeper(r, "rules", cb, st)

\* Lines 46-48: rule.rules, then rule.oneOf.
GoDeeper(r, cb, st) == Deeper(r, "oneOf", cb, Deeper(r, "rules", cb, st))

\* Lines 41-48 once callback(rule) has given c: break, with
\* _carry.interrupted set to false (line 42), or go deeper and on to the
\* next Rule of the loop.
AfterCallback(ids, i, cb, c) ==
    IF c.stop THEN [c.st EXCEPT !.interrupted = FALSE]
    ELSE IterateRulesDeep(ids, i + 1, cb, GoDeeper(ids[i], cb, c.st))

\* _iterateRulesDeep(rules, callback, _carry), from the loop's index i on
\* (1-based); st holds _carry and everything the callback reads and writes.
\* _carry.interrupted is never set to true, so the loops of the callers go
\* on after a break.
IterateRulesDeep(ids, i, cb, st) ==
    IF i > Len(ids) THEN st
    ELSE IF st.interrupted THEN [st EXCEPT !.interrupted = FALSE]
    ELSE AfterCallback(ids, i, cb, Callback(cb, ids[i], st))

FindCb(m, stop) == [kind |-> "find", m |-> m, stop |-> stop, target |-> Undef]
ParentCb(t) == [kind |-> "parent", m |-> {}, stop |-> FALSE, target |-> t]
NormalizeCb == [kind |-> "normalize", m |-> {}, stop |-> FALSE, target |-> Undef]

\* _findByLoader(rules, loaderMatcher, stopAfterFirstFound)
FindByLoader(f, h, n, m, stopAfterFirstFound) ==
    IterateRulesDeep(f, 1, FindCb(m, stopAfterFirstFound), Start(h, n))

\* getParentRule(rules, ruleOrUseEntry): the traversal; .result is the answer.
GetParentRuleRun(f, h, n, t) == IterateRulesDeep(f, 1, ParentCb(t), Start(h, n))

\* normalizeRuleset(rules)
NormalizeRulesetRun(f, h, n) == IterateRulesDeep(f, 1, NormalizeCb, Start(h, n))

----------------------------------------------------------------------------
(* Insertion *)

\* Mutant: splice(start, 1, item), which overwrites the element at start.
Splice_replaces(xs, start, item) ==
    SubSeq(xs, 1, start) \o <<item>> \o SubSeq(xs, start + 2, Len(xs))

\* array.splice(start, 0, item), start 0-based.
Splice(xs, start, item) ==
    SubSeq(xs, 1, start) \o <<item>> \o SubSeq(xs, start + 1, Len(xs))

\* Mutant: addToIndex is not added to the index.
InsertAtPositionOf_noOffset(isArray, xs, targetItem, itemToInsert, addToIndex) ==
    IF ~isArray THEN [ok |-> FALSE, xs |-> xs]
    ELSE LET index == IndexOfItem(xs, targetItem)
         IN  IF index = -1 THEN [ok |-> FALSE, xs |-> xs]
             ELSE [ok |-> TRUE, xs |-> Splice(xs, index, itemToInsert)]

\* _insertAtPositionOf(array, targetItem, itemToInsert, addToIndex):
\* the value returned and the array afterwards.
InsertAtPositionOf(isArray, xs, targetItem, itemToInsert, addToIndex) ==
    IF ~isArray THEN [ok |-> FALSE, xs |-> xs]
    ELSE LET index == IndexOfItem(xs, targetItem)
         IN  IF index = -1 THEN [ok |-> FALSE, xs |-> xs]
             ELSE [ok |-> TRUE, xs |-> Splice(xs, index + addToIndex, itemToInsert)]

\* Lines 283-286 / 303-306: parent.rules, then parent.oneOf; run is the
\* traversal getParentRule made.
InsertUnderParent(f, run, target, newRule, addToIndex) ==
    LET parent == run.result
        p == parent.id
        inRules == InsertAtPositionOf(run.heap[p].rules.arr, Refs(run.heap[p].rules.ids),
                                      target, RuleRef(newRule), addToIndex)
        inOneOf == InsertAtPositionOf(run.heap[p].oneOf.arr, Refs(run.heap[p].oneOf.ids),
                                      target, RuleRef(newRule), addToIndex)
        out == [ok |-> FALSE, forest |-> f, heap |-> run.heap, nid |-> run.nid,
                log |-> run.log]
    IN  IF parent = Undef THEN out
        ELSE IF inRules.ok
        THEN [out EXCEPT !.ok = TRUE, !.heap[p].rules = Sub(Ids(inRules.xs))]
        ELSE IF inOneOf.ok
        THEN [out EXCEPT !.ok = TRUE, !.heap[p].oneOf = Sub(Ids(inOneOf.xs))]
        ELSE out

\* insertBeforeRule (addToIndex 0) and insertAfterRule (addToIndex 1).
\* newRule is the identity of the new Rule, already in heap h.
InsertRule(f, h, n, target, newRule, addToIndex) ==
    IF Includes(Refs(f), target)
    THEN LET ins == InsertAtPositionOf(TRUE, Refs(f), target, RuleRef(newRule), addToIndex)
         IN  [ok |-> ins.ok, forest |-> Ids(ins.xs), heap |-> h, nid |-> n, log |-> <<>>]
    ELSE InsertUnderParent(f, GetParentRuleRun(f, h, n, target), target, newRule, addToIndex)

\* Lines 318 / 330: !!parent && _insertAtPositionOf(parent.use, ...).
InsertIntoUse(f, run, target, newUseEntry, addToIndex) ==
    LET parent == run.result
        p == parent.id
        ins == InsertAtPositionOf(run.heap[p].use.arr, run.heap[p].use.xs,
                                  target, newUseEntry, addToIndex)
        out == [ok |-> FALSE, forest |-> f, heap |-> run.heap, nid |-> run.nid,
                log |-> run.log]
    IN  IF parent = Undef THEN out
        ELSE IF ins.ok THEN [out EXCEPT !.ok = TRUE, !.heap[p].use = Arr(ins.xs)]
        ELSE out

\* insertBeforeUseEntry (addToIndex 0) and insertAfterUseEntry (addToIndex 1).
InsertUseEntry(f, h, n, target, newUseEntry, addToIndex) ==
    InsertIntoUse(f, GetParentRuleRun(f, h, n, target), target, newUseEntry, addToIndex)

----------------------------------------------------------------------------
(* Bounds and inputs *)

NumRules == 3       \* Rules of an initial forest

A == <<"a">>
B == <<"b">>
Z == <<"z">>

MkRule(use, loader, loaders, options, query, rules, oneOf) ==
    [use |-> use, loader |-> loader, loaders |-> loaders, options |-> options,
     query |-> query, rules |-> rules, oneOf |-> oneOf]

\* The shapes a Rule of an initial forest takes; x and y are the identities
\* of the objects the Rule owns.
\*   1: no loader information       2: use: [{loader:'a'}, {loader:'b'}]
\*   3: loader: 'a!b'               4: use: ['b', {loader:'a'}]
RuleConfig(k, x, y) ==
    CASE k = 1 -> MkRule(Absent, Absent, Absent, UndefOpt, UndefOpt, NoForest, NoForest)
      [] k = 2 -> MkRule(Arr(<<Obj(x, A, UndefOpt, UndefOpt), Obj(y, B, UndefOpt, UndefOpt)>>),
                         Absent, Absent, UndefOpt, UndefOpt, NoForest, NoForest)
      [] k = 3 -> MkRule(Absent, One(Str(<<"a", "!", "b">>)), Absent, UndefOpt, UndefOpt,
                         NoForest, NoForest)
      [] OTHER -> MkRule(Arr(<<Str(B), Obj(x, A, UndefOpt, UndefOpt)>>),
                         Absent, Absent, UndefOpt, UndefOpt, NoForest, NoForest)
Configs == 1..4

\* The Rule a caller inserts: { loader: 'a' }.
NewRule == MkRule(Absent, One(Str(A)), Absent, UndefOpt, UndefOpt, NoForest, NoForest)
\* The UseEntry a caller inserts; id is its identity.
NewUseEntry(id) == Obj(id, Z, UndefOpt, UndefOpt)

\* The function matchers tried.
Matchers == {{A}, {A, B}}

\* The ids 1..n in order whose parent is i in slot s.
ChildrenOf(n, parent, slot, i, s) ==
    SelectSeq([j \in 1..n |-> j], LAMBDA j : parent[j] = i /\ slot[j] = s)

AsForest(ids) == IF ids = <<>> THEN NoForest ELSE Sub(ids)

\* Every object a forest refers to: its Rules and the objects in its use arrays.
UseObjects(h) ==
    UNION {{h[r].use.xs[i] : i \in {j \in 1..Len(h[r].use.xs) :
                                       h[r].use.xs[j].k \in {"obj", "fn"}}} :
           r \in 1..Len(h)}
\* A UseEntry that is in no forest (identity 0), though it looks like one
\* that is: { loader: 'a' }.
StrayUseEntry == Obj(0, A, UndefOpt, UndefOpt)

\* The targets tried: every Rule and a Rule that is nowhere (identity 0);
\* every object of a use array and the stray UseEntry.
RuleTargets(h) == {RuleRef(r) : r \in 0..Len(h)}
UseEntryTargets(h) == UseObjects(h) \cup {StrayUseEntry}
Targets(h) == RuleTargets(h) \cup UseEntryTargets(h)

NoCall == [op |-> "none", m |-> {}, target |-> Undef, elem |-> Undef, ok |-> FALSE,
           val |-> Undef, list |-> <<>>, log |-> <<>>]
NoMatch == [sep |-> "", matcher |-> <<>>, loader |-> <<>>]

----------------------------------------------------------------------------
(* The forest under the API *)

\* A forest of n Rules of any shape, on which the caller makes lim calls.
InitForest(n, lim) ==
    \E parent \in [1..n -> 0..(n - 1)],
       slot \in [1..n -> {"rules", "oneOf"}],
       config \in [1..n -> Configs] :
      /\ \A i \in 1..n : parent[i] < i /\ (parent[i] = 0 => slot[i] = "rules")
      /\ forest = ChildrenOf(n, parent, slot, 0, "rules")
      /\ heap = [i \in 1..n |->
                   [RuleConfig(config[i], 2 * i - 1, 2 * i) EXCEPT
                      !.rules = AsForest(ChildrenOf(n, parent, slot, i, "rules")),
                      !.oneOf = AsForest(ChildrenOf(n, parent, slot, i, "oneOf"))]]
      /\ nid = 2 * n + 1
      /\ calls = 0
      /\ limit = lim
      /\ last = NoCall
      /\ before = [forest |-> forest, heap |-> heap, nid |-> nid]
      /\ matchIn = NoMatch
      /\ matchOut = FALSE

Init == InitForest(NumRules, 1)

\* A call begins, if fewer than limit calls were made.
Begin ==
    /\ calls < limit
    /\ calls' = calls + 1
    /\ before' = [forest |-> forest, heap |-> heap, nid |-> nid]
    /\ UNCHANGED <<limit, matchIn, matchOut>>

\* A search returns result, made from findings, what _findByLoader gave.
Searched(name, m, findings, result) ==
    /\ heap' = findings.heap
    /\ nid' = findings.nid
    /\ last' = [NoCall EXCEPT !.op = name, !.m = m, !.log = findings.log,
                  !.val = result.val, !.list = result.list]
    /\ UNCHANGED forest

\* findings.length ? (findings[0].useEntry) : null
FirstUseEntry(findings) ==
    [val |-> IF Len(findings) # 0 THEN findings[1].useEntry ELSE Undef, list |-> <<>>]

\* findings.length ? (findings[0].rule) : null
FirstRule(findings) ==
    [val |-> IF Len(findings) # 0 THEN RuleRef(findings[1].rule) ELSE Undef, list |-> <<>>]

\* findings.map(both => both.useEntry)
UseEntries(findings) ==
    [val |-> Undef, list |-> [i \in 1..Len(findings) |-> findings[i].useEntry]]

\* findings.map(both => both.rule)
Rules(findings) ==
    [val |-> Undef, list |-> [i \in 1..Len(findings) |-> RuleRef(findings[i].rule)]]

\* getLoader(rules, matcher)
GetLoader ==
    /\ Begin
    /\ \E m \in Matchers :
         LET findings == FindByLoader(forest, heap, nid, m, TRUE)
         IN  Searched("getLoader", m, findings, FirstUseEntry(findings.results))

\* getRuleByLoader(rules, matcher)
GetRuleByLoader ==
    /\ Begin
    /\ \E m \in Matchers :
         LET findings == FindByLoader(forest, heap, nid, m, TRUE)
         IN  Searched("getRuleByLoader", m, findings, FirstRule(findings.results))

\* getAllLoaders(rules, matcher)
GetAllLoaders ==
    /\ Begin
    /\ \E m \in Matchers :
         LET findings == FindByLoader(forest, heap, nid, m, FALSE)
         IN  Searched("getAllLoaders", m, findings, UseEntries(findings.results))

\* getAllRulesByLoader(rules, matcher)
GetAllRulesByLoader ==
    /\ Begin
    /\ \E m \in Matchers :
         LET findings == FindByLoader(forest, heap, nid, m, FALSE)
         IN  Searched("getAllRulesByLoader", m, findings, Rules(findings.results))

\* getParentRule returns: run is its traversal.
ParentFound(t, run) ==
    /\ heap' = run.heap
    /\ nid' = run.nid
    /\ last' = [NoCall EXCEPT !.op = "getParentRule", !.target = t,
                  !.log = run.log, !.val = run.result]
    /\ UNCHANGED forest

\* getParentRule(rules, ruleOrUseEntry)
GetParentRule ==
    /\ Begin
    /\ \E t \in Targets(heap) : ParentFound(t, GetParentRuleRun(forest, heap, nid, t))

\* An insert returns r. A new Rule that was not inserted stays outside the
\* forest and is dropped from the heap (olds is the number of Rules before).
Inserted(name, t, elem, olds, r) ==
    /\ forest' = r.forest
    /\ heap' = SubSeq(r.heap, 1, IF r.ok THEN Len(r.heap) ELSE olds)
    /\ nid' = r.nid
    /\ last' = [NoCall EXCEPT !.op = name, !.target = t, !.elem = elem,
                  !.log = r.log, !.ok = r.ok]

\* The new Rule is made by the caller before the call.
InsertRuleCall(name, addToIndex) ==
    /\ Begin
    /\ \E t \in RuleTargets(heap) :
         Inserted(name, t, RuleRef(Len(heap) + 1), Len(heap),
                  InsertRule(forest, Append(heap, NewRule), nid, t, Len(heap) + 1,
                             addToIndex))

\* insertBeforeRule(rules, beforeRule, newRule)
InsertBeforeRule == InsertRuleCall("insertBeforeRule", 0)

\* insertAfterRule(rules, afterRule, newRule)
InsertAfterRule == InsertRuleCall("insertAfterRule", 1)

\* The new UseEntry is a fresh object made by the caller.
InsertUseEntryCall(name, addToIndex) ==
    /\ Begin
    /\ \E t \in UseEntryTargets(heap) :
         Inserted(name, t, NewUseEntry(nid), Len(heap),
                  InsertUseEntry(forest, heap, nid + 1, t, NewUseEntry(nid), addToIndex))

\* insertBeforeUseEntry(rules, beforeUseEntry, newUseEntry)
InsertBeforeUseEntry == InsertUseEntryCall("insertBeforeUseEntry", 0)

\* insertAfterUseEntry(rules, afterUseEntry, newUseEntry)
InsertAfterUseEntry == InsertUseEntryCall("insertAfterUseEntry", 1)

\* normalizeRuleset returns: run is its traversal.
AllNormalized(run) ==
    /\ heap' = run.heap
    /\ nid' = run.nid
    /\ last' = [NoCall EXCEPT !.op = "normalizeRuleset", !.log = run.log]
    /\ UNCHANGED forest

\* normalizeRuleset(rules)
NormalizeRuleset ==
    /\ Begin
    /\ AllNormalized(NormalizeRulesetRun(forest, heap, nid))

Next ==
    \/ GetLoader
    \/ GetRuleByLoader
    \/ GetAllLoaders
    \/ GetAllRulesByLoader
    \/ GetParentRule
    \/ InsertBeforeRule
    \/ InsertAfterRule
    \/ InsertBeforeUseEntry
    \/ InsertAfterUseEntry
    \/ NormalizeRuleset

\* A behaviour of Spec is one call of the API on an arbitrary forest.
Spec == Init /\ [][Next]_vars

----------------------------------------------------------------------------
(* Calls in sequence, each on the forest the one before left *)

SeqRules == 2       \* Rules of an initial forest
MaxCalls == 2       \* calls in a run

InitSeq == InitForest(SeqRules, MaxCalls)

SpecSeq == InitSeq /\ [][Next]_vars

----------------------------------------------------------------------------
(* Normalization alone: every shape of Rule, normalized again and again *)

NormPasses == 2     \* calls of normalizeRuleset in a run

AB == <<"a", "!", "b">>
AX == <<"a", "?", "x">>
ABX == <<"a", "!", "b", "?", "x">>

\* The values tried for the fields of a Rule; the objects of use have the
\* identities 1 and 2, those of loader 3 and 4.
UseValues ==
    {Absent, One(Str(<<>>)), One(Str(A)), One(Str(AX)),
     One(Obj(1, A, ObjOpt, UndefOpt)), One(Fn(1)), Arr(<<>>),
     Arr(<<Str(AB), Obj(1, B, UndefOpt, UndefOpt), Str(AX), Fn(2)>>)}
LoaderValues ==
    {Absent, One(Str(<<>>)), One(Str(A)), One(Str(ABX)), One(Fn(3)),
     Arr(<<Str(A), Obj(4, B, UndefOpt, UndefOpt)>>)}
LoadersValues == {Absent, One(Str(<<>>)), One(Str(AB)), Arr(<<Str(B)>>)}
OptionValues == {UndefOpt, StrOpt(<<>>), ObjOpt}
\* The identities those objects have, and the first one free.
GivenIds == 1..4
FirstFree == Cardinality(GivenIds) + 1

\* The forest [R1] where R1 is any Rule and R1.oneOf = [R2], R2 legacy or not.
InitNorm ==
    \E use \in UseValues, loader \in LoaderValues, loaders \in LoadersValues,
       options \in OptionValues, query \in OptionValues, config \in {1, 3} :
      /\ forest = <<1>>
      /\ heap = <<MkRule(use, loader, loaders, options, query, NoForest, Sub(<<2>>)),
                  RuleConfig(config, 0, 0)>>
      /\ nid = FirstFree
      /\ calls = 0
      /\ limit = NormPasses
      /\ last = NoCall
      /\ before = [forest |-> forest, heap |-> heap, nid |-> nid]
      /\ matchIn = NoMatch
      /\ matchOut = FALSE

NextNorm == NormalizeRuleset

SpecNorm == InitNorm /\ [][NextNorm]_vars

----------------------------------------------------------------------------
(* The string matcher of _normalizeLoaderMatcher (lines 137-146) *)

\* The characters /([.?*+^$[\]\\(){}|-])/ escapes.
Meta == {".", "?", "*", "+", "^", "$", "[", "]", "\\", "(", ")", "{", "}", "|", "-"}

\* loaderMatcher.replace(/([.?*+^$[\]\\(){}|-])/g, "\\$1")
RECURSIVE Escape(_)
Escape(s) ==
    IF s = <<>> THEN <<>>
    ELSE (IF Head(s) \in Meta THEN <<"\\", Head(s)>> ELSE <<Head(s)>>) \o Escape(Tail(s))

\* matcherBase.replace(/\//g, '(?:\/|\\\\)'): the text (?:/|\\) for every slash.
RECURSIVE ReplaceSlashes(_)
ReplaceSlashes(s) ==
    IF s = <<>> THEN <<>>
    ELSE (IF Head(s) = "/" THEN <<"(", "?", ":", "/", "|", "\\", "\\", ")">>
          ELSE <<Head(s)>>) \o ReplaceSlashes(Tail(s))

\* Mutant: the pattern without its word boundaries.
PatternSource_noBoundary(sep, m) ==
    IF sep = "\\" THEN ReplaceSlashes(Escape(m)) ELSE Escape(m)

\* The source of the pattern: `\\b${matcherBase}\\b` (lines 138-140);
\* sep is path.sep.
PatternSource(sep, m) ==
    <<"\\", "b">> \o (IF sep = "\\" THEN ReplaceSlashes(Escape(m)) ELSE Escape(m))
                  \o <<"\\", "b">>

\* What new RegExp makes of such a source: \b is a word-boundary assertion,
\* \c the character c, (?:/|\\) a slash or a backslash, any other character
\* itself.  (An unescaped parenthesis can only come from ReplaceSlashes.)
RECURSIVE Tokens(_)
Tokens(p) ==
    IF p = <<>> THEN <<>>
    ELSE IF p[1] = "\\" /\ Len(p) >= 2
    THEN <<IF p[2] = "b" THEN [t |-> "wb", cs |-> {}] ELSE [t |-> "lit", cs |-> {p[2]}]>>
           \o Tokens(SubSeq(p, 3, Len(p)))
    ELSE IF p[1] = "("
    THEN <<[t |-> "lit", cs |-> {"/", "\\"}]>> \o Tokens(SubSeq(p, 9, Len(p)))
    ELSE <<[t |-> "lit", cs |-> {p[1]}]>> \o Tokens(Tail(p))

UpperCase == <<"A", "B", "C", "D", "E", "F", "G", "H", "I", "J", "K", "L", "M",
               "N", "O", "P", "Q", "R", "S", "T", "U", "V", "W", "X", "Y", "Z">>
LowerCase == <<"a", "b", "c", "d", "e", "f", "g", "h", "i", "j", "k", "l", "m",
               "n", "o", "p", "q", "r", "s", "t", "u", "v", "w", "x", "y", "z">>
Digits == {"0", "1", "2", "3", "4", "5", "6", "7", "8", "9"}

\* Case folding of the i flag.
Fold(c) == IF \E i \in 1..Len(UpperCase) : UpperCase[i] = c
           THEN LowerCase[CHOOSE i \in 1..Len(UpperCase) : UpperCase[i] = c] ELSE c

\* \w
WordChar(c) ==
    c \in {UpperCase[i] : i \in 1..Len(UpperCase)}
            \cup {LowerCase[i] : i \in 1..Len(LowerCase)} \cup Digits \cup {"_"}

\* \b between the characters text[pos] and text[pos + 1].
Boundary(text, pos) ==
    (pos >= 1 /\ WordChar(text[pos])) # (pos < Len(text) /\ WordChar(text[pos + 1]))

\* The tokens match text from its 0-based position pos on.
RECURSIVE MatchAt(_, _, _)
MatchAt(tokens, text, pos) ==
    IF tokens = <<>> THEN TRUE
    ELSE IF Head(tokens).t = "wb"
    THEN Boundary(text, pos) /\ MatchAt(Tail(tokens), text, pos)
    ELSE /\ pos < Len(text)
         /\ Fold(text[pos + 1]) \in {Fold(c) : c \in Head(tokens).cs}
         /\ MatchAt(Tail(tokens), text, pos + 1)

\* text.search(pattern) !== -1
Search(tokens, text) == \E pos \in 0..Len(text) : MatchAt(tokens, text, pos)

\* s.lastIndexOf(needle): 0-based, -1 if none.
LastIndexOf(s, needle) ==
    LET at == {i \in 0..(Len(s) - Len(needle)) :
                 SubSeq(s, i + 1, i + Len(needle)) = needle}
    IN  IF at = {} THEN -1 ELSE CHOOSE i \in at : \A j \in at : j <= i

\* `${path.sep}node_modules${path.sep}`
Marker(sep) ==
    <<sep, "n", "o", "d", "e", "_", "m", "o", "d", "u", "l", "e", "s", sep>>

\* The matcher made of the string m, applied to an entry with this loader
\* (lines 142-146).
StringMatcher(sep, m, loader) ==
    LET index == LastIndexOf(loader, Marker(sep))
        strToTest == SubstrFrom(loader, IF index < 0 THEN 0 ELSE index + Len(Marker("/")))
    IN  Search(Tokens(PatternSource(sep, m)), strToTest)

\* Matcher strings and loader paths tried.
\* 'babel-loader'
BabelLoader ==
    <<"b", "a", "b", "e", "l", "-", "l", "o", "a", "d", "e", "r">>
\* 'loader'
Loader ==
    <<"l", "o", "a", "d", "e", "r">>
\* 'Babel-Loader'
BabelLoaderCaps ==
    <<"B", "a", "b", "e", "l", "-", "L", "o", "a", "d", "e", "r">>
\* 'css-loader'
CssLoader ==
    <<"c", "s", "s", "-", "l", "o", "a", "d", "e", "r">>
\* 'babel.loader'
BabelDotLoader ==
    <<"b", "a", "b", "e", "l", ".", "l", "o", "a", "d", "e", "r">>
\* 'lib/css'
LibCss ==
    <<"l", "i", "b", "/", "c", "s", "s">>
\* '/proj/node_modules/babel-loader/index.js'
InNodeModules ==
    <<"/", "p", "r", "o", "j", "/", "n", "o", "d", "e", "_", "m", "o", "d",
      "u", "l", "e", "s", "/", "b", "a", "b", "e", "l", "-", "l", "o", "a",
      "d", "e", "r", "/", "i", "n", "d", "e", "x", ".", "j", "s">>
\* '/proj/src/my-babel-loader-wrapper.js'
Wrapper ==
    <<"/", "p", "r", "o", "j", "/", "s", "r", "c", "/", "m", "y", "-", "b",
      "a", "b", "e", "l", "-", "l", "o", "a", "d", "e", "r", "-", "w", "r",
      "a", "p", "p", "e", "r", ".", "j", "s">>
\* '/proj/src/mybabel-loader.js'
Glued ==
    <<"/", "p", "r", "o", "j", "/", "s", "r", "c", "/", "m", "y", "b", "a",
      "b", "e", "l", "-", "l", "o", "a", "d", "e", "r", ".", "j", "s">>
\* '/p/node_modules/babel-loader/node_modules/css-loader/i.js'
Nested ==
    <<"/", "p", "/", "n", "o", "d", "e", "_", "m", "o", "d", "u", "l", "e",
      "s", "/", "b", "a", "b", "e", "l", "-", "l", "o", "a", "d", "e", "r",
      "/", "n", "o", "d", "e", "_", "m", "o", "d", "u", "l", "e", "s", "/",
      "c", "s", "s", "-", "l", "o", "a", "d", "e", "r", "/", "i", ".", "j",
      "s">>
\* 'babel-loader'
Bare ==
    <<"b", "a", "b", "e", "l", "-", "l", "o", "a", "d", "e", "r">>
\* 'C:\p\node_modules\lib\css.js'
Windows ==
    <<"C", ":", "\\", "p", "\\", "n", "o", "d", "e", "_", "m", "o", "d", "u",
      "l", "e", "s", "\\", "l", "i", "b", "\\", "c", "s", "s", ".", "j", "s">>
\* '/p/node_modules/babelXloader/lib/css.js'
OtherName ==
    <<"/", "p", "/", "n", "o", "d", "e", "_", "m", "o", "d", "u", "l", "e",
      "s", "/", "b", "a", "b", "e", "l", "X", "l", "o", "a", "d", "e", "r",
      "/", "l", "i", "b", "/", "c", "s", "s", ".", "j", "s">>
\* '/p/node_modules/BABEL-LOADER/index.js'
Shouting ==
    <<"/", "p", "/", "n", "o", "d", "e", "_", "m", "o", "d", "u", "l", "e",
      "s", "/", "B", "A", "B", "E", "L", "-", "L", "O", "A", "D", "E", "R",
      "/", "i", "n", "d", "e", "x", ".", "j", "s">>
MatcherStrings == {BabelLoader, Loader, BabelLoaderCaps, CssLoader, BabelDotLoader, LibCss}
LoaderPaths == {InNodeModules,
                Wrapper,
                Glued,
                Nested,
                Bare,
                Windows,
                OtherName,
                Shouting}

InitMatch ==
    \E sep \in {"/", "\\"}, m \in MatcherStrings, loader \in LoaderPaths :
      /\ matchIn = [sep |-> sep, matcher |-> m, loader |-> loader]
      /\ matchOut = FALSE
      /\ forest = <<>>
      /\ heap = <<>>
      /\ nid = 1
      /\ calls = 0
      /\ limit = 1
      /\ last = NoCall
      /\ before = [forest |-> forest, heap |-> heap, nid |-> nid]

\* matcher(entry), matcher being _normalizeLoaderMatcher(matchIn.matcher)
ApplyStringMatcher ==
    /\ calls = 0
    /\ calls' = 1
    /\ matchOut' = StringMatcher(matchIn.sep, matchIn.matcher, matchIn.loader)
    /\ UNCHANGED <<forest, heap, nid, limit, last, before, matchIn>>

NextMatch == ApplyStringMatcher

SpecMatch == InitMatch /\ [][NextMatch]_vars

----------------------------------------------------------------------------
(* String matcher: claim C9, checked under SpecMatch *)

Applied == calls = 1

\* name occurs in text as a whole name: the same characters, case aside,
\* with a word boundary before and after.
Occurs(name, text) ==
    \E p \in 0..(Len(text) - Len(name)) :
      /\ \A i \in 1..Len(name) : Fold(text[p + i]) = Fold(name[i])
      /\ Boundary(text, p)
      /\ Boundary(text, p + Len(name))

\* The part of a path after its last /node_modules/, or all of it.
PosixMarker == Marker("/")
AfterLastMarker(path) ==
    LET ends == {i \in 1..Len(path) :
                   i >= Len(PosixMarker)
                   /\ SubSeq(path, i - Len(PosixMarker) + 1, i) = PosixMarker}
    IN  IF ends = {} THEN path
        ELSE SubSeq(path, (CHOOSE i \in ends : \A j \in ends : j <= i) + 1, Len(path))

Example(m, loader) == matchIn.matcher = m /\ matchIn.loader = loader

----------------------------------------------------------------------------
(* Normalization: claims C4 and C5, checked under SpecNorm *)

Normalized == last.op = "normalizeRuleset"

\* C4: normalization is idempotent: a second normalizeRuleset leaves every
\* Rule of the forest exactly as the first one left it, whatever mix of use,
\* loader, loaders, options and query the Rule began with.
C4_NormalizationIdempotent ==
    (Normalized /\ calls >= 2) => (heap = before.heap /\ forest = before.forest)

\* C4 happens: a second pass ran over a Rule whose use holds an object the
\* first pass made out of a string.
C4_Witness ==
    /\ Normalized /\ calls >= 2
    /\ heap[1].use.arr
    /\ \E i \in 1..Len(heap[1].use.xs) : heap[1].use.xs[i].id >= FirstFree

\* A Rule gave loader information if use, loader or loaders was set to
\* something (not to the empty string).
SpecifiedLoader(rule) ==
    Truthy(rule.use) \/ Truthy(rule.loader) \/ Truthy(rule.loaders)

\* use is an array and none of its elements is a string.
UseIsCanonical(rule) ==
    rule.use.arr /\ \A i \in 1..Len(rule.use.xs) : rule.use.xs[i].k # "str"

\* C5 as claimed: after normalizeRuleset every Rule that gave loader
\* information, with or without options/query, has neither loader nor
\* loaders, and its use is an array none of whose elements is a string.
C5_AsClaimed ==
    (Normalized /\ calls = 1) =>
      \A r \in 1..Len(heap) :
        SpecifiedLoader(before.heap[r]) =>
          /\ ~Truthy(heap[r].loader)
          /\ ~Truthy(heap[r].loaders)
          /\ UseIsCanonical(heap[r])

\* The legacy shapes webpack accepts: no use; a string loader with at most one
\* of options and query, or another loader with neither.
ValidLegacy(rule) ==
    LET loader == IF Truthy(rule.loaders) THEN rule.loaders ELSE rule.loader
    IN  /\ ~Truthy(rule.use)
        /\ \/ IsStr(loader) /\ ~(TruthyOpt(rule.options) /\ TruthyOpt(rule.query))
           \/ /\ ~IsStr(loader) /\ Truthy(loader)
              /\ ~TruthyOpt(rule.options) /\ ~TruthyOpt(rule.query)

\* C5 amended: after normalizeRuleset, a Rule that had a use, or no use and a
\* valid legacy shape, has use as an array without string elements; in the
\* legacy case loader and loaders are gone.  (An invalid mix of legacy fields
\* is left as it was, and a Rule with use keeps a loader it also had.)
C5_NormalizedExposesUse ==
    (Normalized /\ calls = 1) =>
      \A r \in 1..Len(heap) :
        /\ Truthy(before.heap[r].use) => UseIsCanonical(heap[r])
        /\ ValidLegacy(before.heap[r]) =>
             /\ UseIsCanonical(heap[r])
             /\ heap[r].loader = Absent
             /\ heap[r].loaders = Absent

\* C5 happens: the nested Rule was { loader: 'a!b' } and the outer one had
\* loaders and options; both now expose their loaders through use.
C5_Witness ==
    /\ Normalized /\ calls = 1
    /\ ValidLegacy(before.heap[2]) /\ UseIsCanonical(heap[2]) /\ Len(heap[2].use.xs) = 2
    /\ ValidLegacy(before.heap[1]) /\ before.heap[1].loaders # Absent
    /\ TruthyOpt(before.heap[1].options)
    /\ UseIsCanonical(heap[1])

----------------------------------------------------------------------------
(* What the claims speak of *)

Op(name) == calls = 1 /\ last.op = name

\* The Rules of a forest in depth-first pre-order: a Rule, then its rules
\* forest, then its oneOf forest, then its next sibling.
RECURSIVE PreOrder(_, _)
PreOrder(ids, h) ==
    IF ids = <<>> THEN <<>>
    ELSE <<Head(ids)>> \o PreOrder(SubForest(h[Head(ids)].rules), h)
                       \o PreOrder(SubForest(h[Head(ids)].oneOf), h)
                       \o PreOrder(Tail(ids), h)

\* The forest the last call was given, with every Rule normalized.
AllNormal == NormalizeRulesetRun(before.forest, before.heap, before.nid).heap

\* Every (rule, useEntry) of the normalized forest whose entry the matcher
\* accepts, in pre-order of the Rules and in use order within a Rule.
RECURSIVE MatchesIn(_, _, _)
MatchesIn(order, h, m) ==
    IF order = <<>> THEN <<>>
    ELSE LET r == Head(order)
             own == IF h[r].use.arr
                    THEN SelectSeq(h[r].use.xs, LAMBDA e : Matches(m, e)) ELSE <<>>
         IN  [i \in 1..Len(own) |-> [rule |-> r, useEntry |-> own[i]]]
               \o MatchesIn(Tail(order), h, m)

AllMatches == MatchesIn(PreOrder(before.forest, before.heap), AllNormal, last.m)

\* The Rules the callback of the last call was invoked on, in order.
Visited == [i \in 1..Len(last.log) |-> last.log[i].rule]

----------------------------------------------------------------------------
(* Traversal and search: claims C1, C6, C7, C8, checked under Spec *)

\* C1: in getLoader, getRuleByLoader and getParentRule, once the callback has
\* returned false for a Rule, it is not invoked again: the stopping Rule is
\* the last one visited, and no Rule is normalized that was not visited
\* before the stop.
C1_StopIsGlobal ==
    (Op("getLoader") \/ Op("getRuleByLoader") \/ Op("getParentRule")) =>
      \A i \in 1..Len(last.log) :
        last.log[i].stop =>
          /\ i = Len(last.log)
          /\ \A r \in 1..Len(heap) :
               (\A j \in 1..i : Visited[j] # r) => heap[r] = before.heap[r]

\* C6: getLoader returns the first entry, in pre-order of the Rules and use
\* order within a Rule, of the normalized use arrays that the matcher
\* accepts, and null exactly when there is none.
C6_GetLoaderFirstMatch ==
    Op("getLoader") =>
      last.val = IF AllMatches = <<>> THEN Undef ELSE AllMatches[1].useEntry

\* C6 happens: the first match is inside a nested forest, not in the first
\* Rule visited, and further matches follow it.
C6_Witness ==
    /\ Op("getLoader")
    /\ Len(AllMatches) >= 2
    /\ last.val = AllMatches[1].useEntry
    /\ ~Includes(Refs(forest), RuleRef(AllMatches[1].rule))
    /\ AllMatches[2].rule # AllMatches[1].rule

\* C7: getAllLoaders returns every accepted entry of every Rule reachable
\* through rules and oneOf, once per occurrence, in pre-order; the callback
\* is invoked on every reachable Rule, in pre-order, and never stops.
C7_GetAllLoadersPreOrder ==
    Op("getAllLoaders") =>
      /\ last.list = [i \in 1..Len(AllMatches) |-> AllMatches[i].useEntry]
      /\ Visited = PreOrder(before.forest, before.heap)
      /\ \A i \in 1..Len(last.log) : ~last.log[i].stop

\* C7 happens: entries of a Rule, of a Rule in its rules forest and of a Rule
\* in its oneOf forest are returned, in that order.
C7_Witness ==
    /\ Op("getAllLoaders")
    /\ Len(last.list) >= 4
    /\ \E p \in 1..Len(heap) :
         /\ heap[p].rules.arr /\ heap[p].oneOf.arr
         /\ \E i, j, k \in 1..Len(AllMatches) :
              /\ i < j /\ j < k
              /\ AllMatches[i].rule = p
              /\ Includes(Refs(heap[p].rules.ids), RuleRef(AllMatches[j].rule))
              /\ Includes(Refs(heap[p].oneOf.ids), RuleRef(AllMatches[k].rule))

\* Rule r of the normalized forest directly contains t, by identity.
Contains(r, t) ==
    \/ AllNormal[r].rules.arr /\ Includes(Refs(AllNormal[r].rules.ids), t)
    \/ AllNormal[r].oneOf.arr /\ Includes(Refs(AllNormal[r].oneOf.ids), t)
    \/ AllNormal[r].use.arr /\ Includes(AllNormal[r].use.xs, t)

Containers(t) == {r \in 1..Len(before.heap) : Contains(r, t)}

\* C8: getParentRule returns a Rule whose rules, oneOf or normalized use
\* directly contains the target whenever there is one, at any depth, and
\* null otherwise: for an element of the root forest as for a target that is
\* nowhere.
C8_GetParentRule ==
    Op("getParentRule") =>
      IF Containers(last.target) = {}
      THEN last.val = Undef
      ELSE last.val.k = "rule" /\ last.val.id \in Containers(last.target)

\* C8 happens: the parent found lies in the oneOf forest of a nested Rule.
C8_Witness ==
    /\ Op("getParentRule")
    /\ last.val.k = "rule"
    /\ \E p, g \in 1..Len(heap) :
         /\ heap[p].oneOf.arr /\ Includes(Refs(heap[p].oneOf.ids), last.target)
         /\ last.val = RuleRef(p)
         /\ Contains(g, RuleRef(p))

----------------------------------------------------------------------------
(* Insertion: claims C2 and C3, checked under Spec; C10, under SpecSeq *)

RuleInsert == Op("insertBeforeRule") \/ Op("insertAfterRule")
UseEntryInsert == Op("insertBeforeUseEntry") \/ Op("insertAfterUseEntry")
After == Op("insertAfterRule") \/ Op("insertAfterUseEntry")

In(xs, x) == \E i \in 1..Len(xs) : xs[i] = x

\* The use sequence of a Rule as it stands: its array, or its single value.
UseSeq(rule) ==
    IF rule.use.arr \/ Truthy(rule.use) THEN rule.use.xs ELSE <<>>

\* new is old with e put in immediately before (or after) the first t.
IsSplice(old, new, t, e, after) ==
    /\ Len(new) = Len(old) + 1
    /\ \E i \in 1..Len(old) :
         /\ old[i] = t /\ \A j \in 1..(i - 1) : old[j] # t
         /\ LET k == IF after THEN i + 1 ELSE i
            IN  /\ new[k] = e
                /\ \A j \in 1..(k - 1) : new[j] = old[j]
                /\ \A j \in k..Len(old) : new[j + 1] = old[j]

\* Objects the library made during the last call have no name a caller
\* knows: their identities are blanked before two Rules are compared.
Anon(x) == IF x.k = "obj" /\ x.id >= before.nid /\ x # last.elem
           THEN [x EXCEPT !.id = 0] ELSE x
AnonRule(rule) ==
    [rule EXCEPT !.use = [@ EXCEPT !.xs = [i \in 1..Len(@) |-> Anon(@[i])]]]

\* Rule r as it was before the call, normalized.
NormalOf(r) == AnonRule(NormalizeUseEntriesWithinRule(before.heap[r], before.nid).rule)

Old == 1..Len(before.heap)

\* No sequence of Rule r has changed.
SameSeqs(r) ==
    /\ heap[r].rules = before.heap[r].rules
    /\ heap[r].oneOf = before.heap[r].oneOf
    /\ UseSeq(heap[r]) = UseSeq(before.heap[r])

\* Rule r is as it was, or as it was and normalized.
AtMostNormalized(r) ==
    /\ heap[r].rules = before.heap[r].rules
    /\ heap[r].oneOf = before.heap[r].oneOf
    /\ AnonRule(heap[r]) \in {before.heap[r], NormalOf(r)}

\* The target of the last insert is where that insert looks for it.
InRoot == In(Refs(before.forest), last.target)
InRulesOf(p) == before.heap[p].rules.arr /\ In(Refs(before.heap[p].rules.ids), last.target)
InOneOfOf(p) == before.heap[p].oneOf.arr /\ In(Refs(before.heap[p].oneOf.ids), last.target)
InUseOf(p) == In(UseSeq(before.heap[p]), last.target)

\* C2 as claimed: an insert whose target is in the root forest or in the
\* rules / oneOf / use of some Rule returns true; the sequence holding the
\* target is the old one with the new element spliced in next to the target;
\* no other sequence of the forest gains or loses an element.
C2_AsClaimed ==
    /\ RuleInsert /\ InRoot =>
         /\ last.ok
         /\ IsSplice(Refs(before.forest), Refs(forest), last.target, last.elem, After)
         /\ \A r \in Old : SameSeqs(r)
    /\ RuleInsert /\ ~InRoot =>
         \A p \in Old :
           /\ InRulesOf(p) =>
                /\ last.ok /\ forest = before.forest
                /\ IsSplice(Refs(before.heap[p].rules.ids), Refs(heap[p].rules.ids),
                            last.target, last.elem, After)
                /\ heap[p].oneOf = before.heap[p].oneOf
                /\ UseSeq(heap[p]) = UseSeq(before.heap[p])
                /\ \A r \in Old \ {p} : SameSeqs(r)
           /\ InOneOfOf(p) =>
                /\ last.ok /\ forest = before.forest
                /\ IsSplice(Refs(before.heap[p].oneOf.ids), Refs(heap[p].oneOf.ids),
                            last.target, last.elem, After)
                /\ heap[p].rules = before.heap[p].rules
                /\ UseSeq(heap[p]) = UseSeq(before.heap[p])
                /\ \A r \in Old \ {p} : SameSeqs(r)
    /\ UseEntryInsert =>
         \A p \in Old :
           InUseOf(p) =>
             /\ last.ok /\ forest = before.forest
             /\ IsSplice(UseSeq(before.heap[p]), UseSeq(heap[p]),
                         last.target, last.elem, After)
             /\ heap[p].rules = before.heap[p].rules
             /\ heap[p].oneOf = before.heap[p].oneOf
             /\ \A r \in Old \ {p} : SameSeqs(r)

\* C2 amended: as claimed, but the sequences are those of the normalized
\* Rules: the parent lookup normalizes every Rule it visits, so the use that
\* receives the new entry is the parent's normalized use, and any other Rule
\* is left as it was or normalized.  No rules or oneOf sequence but the one
\* holding the target changes, and an insert into the root forest changes no
\* Rule at all.
C2_InsertSplices ==
    /\ RuleInsert /\ InRoot =>
         /\ last.ok
         /\ IsSplice(Refs(before.forest), Refs(forest), last.target, last.elem, After)
         /\ \A r \in Old : heap[r] = before.heap[r]
    /\ RuleInsert /\ ~InRoot =>
         \A p \in Old :
           /\ InRulesOf(p) =>
                /\ last.ok /\ forest = before.forest
                /\ IsSplice(Refs(before.heap[p].rules.ids), Refs(heap[p].rules.ids),
                            last.target, last.elem, After)
                /\ AnonRule(heap[p]) = [NormalOf(p) EXCEPT !.rules = heap[p].rules]
                /\ \A r \in Old \ {p} : AtMostNormalized(r)
           /\ InOneOfOf(p) =>
                /\ last.ok /\ forest = before.forest
                /\ IsSplice(Refs(before.heap[p].oneOf.ids), Refs(heap[p].oneOf.ids),
                            last.target, last.elem, After)
                /\ AnonRule(heap[p]) = [NormalOf(p) EXCEPT !.oneOf = heap[p].oneOf]
                /\ \A r \in Old \ {p} : AtMostNormalized(r)
    /\ RuleInsert /\ last.ok =>
         /\ Len(heap) = Len(before.heap) + 1
         /\ heap[Len(heap)] = NewRule
    /\ UseEntryInsert =>
         /\ Len(heap) = Len(before.heap)
         /\ \A p \in Old :
              InUseOf(p) =>
                /\ last.ok /\ forest = before.forest
                /\ heap[p].use.arr
                /\ IsSplice(NormalOf(p).use.xs, AnonRule(heap[p]).use.xs,
                            last.target, last.elem, After)
                /\ AnonRule(heap[p]) = [NormalOf(p) EXCEPT !.use = AnonRule(heap[p]).use]
                /\ \A r \in Old \ {p} : AtMostNormalized(r)

\* C2 happens: a UseEntry was inserted after one that shares a nested Rule's
\* use with a string; a Rule was inserted before one in a oneOf forest.
C2_Witness ==
    \/ /\ Op("insertAfterUseEntry") /\ last.ok
       /\ \E p \in Old :
            /\ InUseOf(p) /\ ~In(before.forest, p)
            /\ \E i \in 1..Len(before.heap[p].use.xs) : before.heap[p].use.xs[i].k = "str"
            /\ Len(heap[p].use.xs) = 3
    \/ /\ Op("insertBeforeRule") /\ last.ok
       /\ \E p \in Old : InOneOfOf(p) /\ Len(heap[p].oneOf.ids) = 3

\* The target is in no use sequence of the forest.
InNoUse == \A p \in Old : ~InUseOf(p)

\* C3 as claimed: insertBeforeUseEntry with a target that is in no use
\* sequence returns false and leaves every Rule as it was, normalized or not.
C3_AsClaimed ==
    (Op("insertBeforeUseEntry") /\ InNoUse) =>
      /\ ~last.ok
      /\ forest = before.forest
      /\ heap = before.heap

\* C3 amended: insertBeforeUseEntry with a target that is in no use sequence
\* returns false and inserts nothing; it leaves the forest as normalizeRuleset
\* would: the root forest and every rules and oneOf sequence as they were,
\* and every Rule normalized (so a normalized forest is left as it was).
C3_MissingTargetOnlyNormalizes ==
    (Op("insertBeforeUseEntry") /\ InNoUse) =>
      /\ ~last.ok
      /\ forest = before.forest
      /\ Len(heap) = Len(before.heap)
      /\ \A r \in Old :
           /\ heap[r].rules = before.heap[r].rules
           /\ heap[r].oneOf = before.heap[r].oneOf
           /\ AnonRule(heap[r]) = NormalOf(r)
           /\ NormalOf(r) = before.heap[r] => heap[r] = before.heap[r]

\* C3 happens: the stray target was looked for through a forest with a
\* legacy Rule in a nested forest and a Rule that was normalized already.
C3_Witness ==
    /\ Op("insertBeforeUseEntry") /\ InNoUse /\ ~last.ok
    /\ \E r \in Old : ~In(forest, r) /\ heap[r] # before.heap[r]
    /\ \E r \in Old : heap[r] = before.heap[r] /\ heap[r].use.arr

\* Where Rule x and object x occur in a forest.
RuleOccs(f, h, x) ==
    {<<0, "root", i>> : i \in {j \in 1..Len(f) : f[j] = x}}
      \cup UNION {{<<r, "rules", i>> : i \in {j \in 1..Len(h[r].rules.ids) :
                                              h[r].rules.ids[j] = x}} : r \in 1..Len(h)}
      \cup UNION {{<<r, "oneOf", i>> : i \in {j \in 1..Len(h[r].oneOf.ids) :
                                              h[r].oneOf.ids[j] = x}} : r \in 1..Len(h)}
IsObject(e) == e.k \in {"obj", "fn"}
ObjectOccs(h, e) ==
    UNION {{<<r, i>> : i \in {j \in 1..Len(UseSeq(h[r])) : UseSeq(h[r])[j] = e}} :
           r \in 1..Len(h)}
ObjectsOf(h) ==
    UNION {{UseSeq(h[r])[i] : i \in {j \in 1..Len(UseSeq(h[r])) :
                                       IsObject(UseSeq(h[r])[j])}} : r \in 1..Len(h)}

\* Every Rule is in exactly one forest sequence and every object of a use in
\* exactly one use sequence, each at one index.
NoSharing(f, h) ==
    /\ \A x \in 1..Len(h) : Cardinality(RuleOccs(f, h, x)) = 1
    /\ \A e \in ObjectsOf(h) : Cardinality(ObjectOccs(h, e)) = 1

\* C10: every call in a sequence of calls, on a forest without sharing,
\* leaves a forest without sharing, and every Rule and UseEntry object is
\* still in the sequence it was in.
C10_NoSharingPreserved ==
    (calls >= 1 /\ NoSharing(before.forest, before.heap)) =>
      /\ NoSharing(forest, heap)
      /\ \A x \in Old :
           /\ In(before.forest, x) => In(forest, x)
           /\ \A r \in Old :
                /\ In(before.heap[r].rules.ids, x) => In(heap[r].rules.ids, x)
                /\ In(before.heap[r].oneOf.ids, x) => In(heap[r].oneOf.ids, x)
      /\ \A r \in Old :
           \A i \in 1..Len(UseSeq(before.heap[r])) :
             IsObject(UseSeq(before.heap[r])[i]) =>
               In(UseSeq(heap[r]), UseSeq(before.heap[r])[i])

\* C10 happens: a second call put a UseEntry after the one the first call
\* had inserted, in a forest the first call had left without sharing.
C10_Witness ==
    /\ calls = 2 /\ last.op = "insertAfterUseEntry" /\ last.ok
    /\ last.target.k = "obj" /\ last.target.s = Z
    /\ NoSharing(before.forest, before.heap)
    /\ \E r \in Old : Len(UseSeq(heap[r])) = 4

====
